---- MODULE Spec2Model ----
(***************************************************************************)
(* The Sokoban rules of pushblock-poker (src/src/sokoban.rs) on the        *)
(* coordinates of src/src/coordinate.rs.                                   *)
(*                                                                         *)
(* A coordinate::U2 is a pair <<x, y>> of unsigned integers.  The source   *)
(* uses u32; the model keeps the type's shape (a least value 0, a greatest *)
(* value U32_MAX, checked arithmetic that yields None beyond either) at a  *)
(* reduced width, so that both ends of the range are within reach.         *)
(***************************************************************************)
EXTENDS Integers, Sequences, FiniteSets, TLC

\* The greatest value of the unsigned coordinate type (u32::MAX at full width).
\* 7 is the least value on which the documented 8x8 layout fits.
U32_MAX == 7

\* u32::MIN
U32_MIN == 0

\* Enumerated boards keep their objects on a segment, WinSize cells long, of a
\* row or of a column in a corner of the plane.
WinSize == 3

\* Greatest number of stops, pushes and targets, together, of an enumerated board.
MaxObjects == 2

\* Greatest number of you_move calls made on an enumerated board.
MaxMoves == 2

Direction == {"Up", "Left", "Down", "Right"}

U32 == U32_MIN..U32_MAX

U2 == U32 \X U32

\* Option<T>
None == [some |-> FALSE]
Some(v) == [some |-> TRUE, val |-> v]

\* subtraction that wraps round below u32::MIN
wrapping_sub(a, n) == Some((a - n) % (U32_MAX + 1))

\* u32::checked_sub, u32::checked_add
checked_sub(a, n) == IF n > a THEN None ELSE Some(a - n)

\* addition that stops at u32::MAX
saturating_add(a, n) == Some(IF n > U32_MAX - a THEN U32_MAX ELSE a + n)

checked_add(a, n) == IF n > U32_MAX - a THEN None ELSE Some(a + n)

\* Option::map applied to the constructor of the nudged coordinate
map_x(o, p) == IF o.some THEN Some(<<o.val, p[2]>>) ELSE None

map_y(o, p) == IF o.some THEN Some(<<p[1], o.val>>) ELSE None

\* nudge_by with the vertical axis pointing up: Up adds, Down subtracts.
nudge_by_y_up(p, n, d) ==
    CASE d = "Up" -> map_y(checked_add(p[2], n), p)
      [] d = "Left" -> map_x(checked_sub(p[1], n), p)
      [] d = "Down" -> map_y(checked_sub(p[2], n), p)
      [] d = "Right" -> map_x(checked_add(p[1], n), p)

\* U2::nudge_by
nudge_by(p, n, d) ==
    CASE d = "Up" -> map_y(checked_sub(p[2], n), p)
      [] d = "Left" -> map_x(checked_sub(p[1], n), p)
      [] d = "Down" -> map_y(checked_add(p[2], n), p)
      [] d = "Right" -> map_x(checked_add(p[1], n), p)

\* nudge going two units
nudge_two(p, d) == nudge_by(p, 2, d)

\* U2::nudge
nudge(p, d) == nudge_by(p, 1, d)

\* U2Array::contains
contains(arr, c) == \E k \in DOMAIN arr : arr[k] = c

\* Sokoban::new
Sokoban(you, stops, pushes, targets) ==
    [you |-> you, stops |-> stops, pushes |-> pushes, targets |-> targets]

\* self.stops.contains / self.pushes.contains on a board
is_stop(b, c) == contains(b.stops, c)

is_push(b, c) == contains(b.pushes, c)

\* rejects without the test for a stop
rejects_edge_only(b, tc) == ~tc.some

\* The test that rejects a move: the cell does not exist or holds a stop.
rejects(b, tc) == ~tc.some \/ is_stop(b, tc.val)

\* RangeFrom<u32>::next of `for i in 1..`: the counter that follows i.  The
\* iterator adds 1 to the value it is about to yield; on u32::MAX the addition
\* overflows: a panic when the build checks overflow, a wrap to 0 otherwise.
range_overflows(i, overflow_checks) == i = U32_MAX /\ overflow_checks

range_next(i) == (i + 1) % (U32_MAX + 1)

\* walk testing for a stop, and for the end of the range, next to you only
RECURSIVE walk_adjacent_only(_, _, _, _, _)
walk_adjacent_only(b, direction, i, moving_pushes, overflow_checks) ==
    LET test_coordinate == nudge_by(b.you, i, direction) IN
    IF i = 1 /\ rejects(b, test_coordinate)
    THEN [kind |-> "rejected", moving_pushes |-> moving_pushes]
    ELSE IF test_coordinate.some /\ is_push(b, test_coordinate.val)
         THEN walk_adjacent_only(b, direction, i + 1,
                                 Append(moving_pushes, test_coordinate.val),
                                 overflow_checks)
         ELSE [kind |-> "landed", moving_pushes |-> moving_pushes]

\* The outward walk of you_move.  i is the value the iterator is about to
\* yield, moving_pushes the coordinates collected so far.  The walk ends
\* "rejected" (early return), "landed" (break), "panic" (counter overflow in a
\* checked build) or "hang": in an unchecked build the counter wraps to 0, and
\* when the cell at distance 0 (you) holds a push the walk goes round again,
\* over the same cells, for ever.
RECURSIVE walk(_, _, _, _, _)
walk(b, direction, i, moving_pushes, overflow_checks) ==
    IF range_overflows(i, overflow_checks)
    THEN [kind |-> "panic", moving_pushes |-> moving_pushes]
    ELSE LET test_coordinate == nudge_by(b.you, i, direction) IN
         IF rejects(b, test_coordinate)
         THEN [kind |-> "rejected", moving_pushes |-> moving_pushes]
         ELSE IF is_push(b, test_coordinate.val)
              THEN IF i = 0
                   THEN [kind |-> "hang", moving_pushes |-> moving_pushes]
                   ELSE walk(b, direction, range_next(i),
                             Append(moving_pushes, test_coordinate.val),
                             overflow_checks)
              ELSE [kind |-> "landed", moving_pushes |-> moving_pushes]

\* new_you left at self.you
new_you_stays(b, direction) == Some(b.you)

\* let new_you = self.you.nudge(direction).unwrap()
new_you(b, direction) == nudge(b.you, direction)

\* the closure nudging the first push of the chain only
new_push_first_only(push, moving_pushes, direction) ==
    IF moving_pushes # <<>> /\ push = moving_pushes[1]
    THEN nudge(push, direction)
    ELSE Some(push)

\* the closure nudging every push whenever there is a chain
new_push_with_chain(push, moving_pushes, direction) ==
    IF moving_pushes # <<>> THEN nudge(push, direction) ELSE Some(push)

\* The closure mapped over self.pushes: a push of the chain is nudged, any
\* other is copied.
new_push(push, moving_pushes, direction) ==
    IF contains(moving_pushes, push) THEN nudge(push, direction) ELSE Some(push)

\* the map nudging every push, in the chain or not
new_pushes_all(b, moving_pushes, direction) ==
    [k \in DOMAIN b.pushes |-> nudge(b.pushes[k], direction)]

\* the map copying every push
new_pushes_none(b, moving_pushes, direction) ==
    [k \in DOMAIN b.pushes |-> Some(b.pushes[k])]

\* self.pushes.iter().map(..).collect()
new_pushes(b, moving_pushes, direction) ==
    [k \in DOMAIN b.pushes |-> new_push(b.pushes[k], moving_pushes, direction)]

\* Option::unwrap over the mapped pushes
unwrap_all(opts) == [k \in DOMAIN opts |-> opts[k].val]

all_some(opts) == \A k \in DOMAIN opts : opts[k].some

\* The early return: a board built from the fields of self.
unmoved(b) == Sokoban(b.you, b.stops, b.pushes, b.targets)

\* the final expression with stops and targets in each other's place
moved_swapped(b, you, pushes) == Sokoban(you, b.targets, pushes, b.stops)

\* The final expression: a board built from the new you and pushes.
moved(b, you, pushes) == Sokoban(you, b.stops, pushes, b.targets)

\* Sokoban::you_move.  The result is the returned board with status "ok", or
\* no board: status "panic" (an unwrap of None, or the counter overflow) or
\* "hang".
you_move(b, direction, overflow_checks) ==
    LET w == walk(b, direction, 1, <<>>, overflow_checks) IN
    CASE w.kind = "rejected" -> [status |-> "ok", board |-> unmoved(b)]
      [] w.kind = "panic" -> [status |-> "panic", board |-> b]
      [] w.kind = "hang" -> [status |-> "hang", board |-> b]
      [] w.kind = "landed" ->
            LET y == new_you(b, direction)
                ps == new_pushes(b, w.moving_pushes, direction)
            IN IF y.some /\ all_some(ps)
               THEN [status |-> "ok", board |-> moved(b, y.val, unwrap_all(ps))]
               ELSE [status |-> "panic", board |-> b]

\* triggered_targets counting the player as well as the pushes
triggered_targets_or_you(b) ==
    SelectSeq(b.targets, LAMBDA target : contains(b.pushes, target) \/ target = b.you)

\* Sokoban::triggered_targets
triggered_targets(b) == SelectSeq(b.targets, LAMBDA target : contains(b.pushes, target))

\* all_targets_triggered with any in place of all
all_targets_triggered_any(b) == \E k \in DOMAIN b.targets : contains(b.pushes, b.targets[k])

\* Sokoban::all_targets_triggered
all_targets_triggered(b) == \A k \in DOMAIN b.targets : contains(b.pushes, b.targets[k])

(***************************************************************************)
(* The boards a caller can construct.  Sokoban::new validates nothing, so  *)
(* the lists may overlap and repeat.                                       *)
(***************************************************************************)
SeqsUpTo(S, n) == UNION {[1..k -> S] : k \in 0..n}

\* The segments from lo onward of the row and of the column through
\* <<lo + 1, lo + 1>>.
Row(lo) == {<<x, lo + 1>> : x \in lo..(lo + WinSize - 1)}

Column(lo) == {<<lo + 1, y>> : y \in lo..(lo + WinSize - 1)}

\* The corners of the plane: the least and the greatest coordinates.
Corners == {U32_MIN, U32_MAX - WinSize + 1}

Windows == {Row(lo) : lo \in Corners} \cup {Column(lo) : lo \in Corners}

(***************************************************************************)
(* The documented 8x8 sample layout (doc comments and tests::doc_test).    *)
(***************************************************************************)
DocYou == <<4, 4>>

DocStops ==
    << <<2, 0>>, <<3, 0>>, <<4, 0>>, <<2, 1>>, <<4, 1>>, <<2, 2>>, <<4, 2>>,
       <<5, 2>>, <<6, 2>>, <<7, 2>>, <<0, 3>>, <<1, 3>>, <<2, 3>>, <<7, 3>>,
       <<0, 4>>, <<5, 4>>, <<6, 4>>, <<7, 4>>, <<0, 5>>, <<1, 5>>, <<2, 5>>,
       <<3, 5>>, <<5, 5>>, <<3, 6>>, <<5, 6>>, <<3, 7>>, <<4, 7>>, <<5, 7>> >>

DocPushes == << <<3, 3>>, <<5, 3>>, <<3, 4>>, <<4, 5>> >>

DocTargets == << <<3, 1>>, <<6, 3>>, <<1, 4>>, <<4, 6>> >>

DocBoard == Sokoban(DocYou, DocStops, DocPushes, DocTargets)

\* The documented winning sequence of moves.
DocMoves == <<"Down", "Up", "Left", "Left", "Right", "Up", "Up", "Down", "Right", "Right">>

(***************************************************************************)
(* The state: a caller holds a board and replaces it by the result of      *)
(* each you_move call.                                                     *)
(*   board            the board held now                                   *)
(*   initial_board    the board as constructed                             *)
(*   self             the board the last call was made on                  *)
(*   dir              the direction of the last call ("None" before any)   *)
(*   status           how the last call ended: "ok", "panic" or "hang"     *)
(*   steps, budget    calls made so far, and how many the caller makes     *)
(*   script           how many moves of DocMoves the calls so far are, or  *)
(*                    -1 once they have left that sequence                 *)
(*   answer           the query last made on a board and what it returned  *)
(* and, for the hands of poker.rs,                                         *)
(*   given            the cards given to Hand::new                         *)
(*   hand             what Hand::new returned (NoCall before the call)     *)
(*   hand_kind        what hand.kind() returned (NoCall before the call)   *)
(*   other            a second hand, for comparisons                       *)
(*   other_kind       what other.kind() returned                           *)
(*   verdict          the comparison last made and what it returned        *)
(***************************************************************************)
VARIABLES board, initial_board, self, dir, status, steps, budget, script, answer,
          given, hand, hand_kind, other, other_kind, verdict,
          point, nudged, back, vector2, converted,
          event, printed, ready_board

sokoban_vars == <<board, initial_board, self, dir, status, steps, budget, script, answer>>

poker_vars == <<given, hand, hand_kind, other, other_kind, verdict>>

coordinate_vars == <<point, nudged, back, vector2, converted>>

\* What the Godot class of io.rs adds: the last event given to input, what
\* the last call of update_board printed, and the board that ready read.
binding_vars == <<event, printed, ready_board>>

vars == <<sokoban_vars, poker_vars, coordinate_vars, binding_vars>>

\* A call not made.
NoCall == [status |-> "none"]

\* No hand in play.
NoCards ==
    /\ given = <<>>
    /\ hand = NoCall
    /\ hand_kind = NoCall
    /\ other = NoCall
    /\ other_kind = NoCall
    /\ verdict = NoCall

\* No coordinate in hand.
NoPoint ==
    /\ point = NoCall
    /\ nudged = NoCall
    /\ back = NoCall
    /\ vector2 = NoCall
    /\ converted = NoCall

\* No Godot node in the scene.
NoEvent ==
    /\ event = NoCall
    /\ printed = NoCall
    /\ ready_board = NoCall

\* No query made.
NoAnswer == [query |-> "none"]

InitOn(b, moves) ==
    /\ board = b
    /\ initial_board = b
    /\ self = b
    /\ dir = "None"
    /\ status = "ok"
    /\ steps = 0
    /\ budget = moves
    /\ script = 0
    /\ answer = NoAnswer
    /\ NoCards
    /\ NoPoint
    /\ NoEvent

\* Every board of at most MaxObjects objects, the player and all on one window.
InitWindow ==
    \E W \in Windows :
      \E you \in W :
        \E stops \in SeqsUpTo(W, MaxObjects) :
          \E pushes \in SeqsUpTo(W, MaxObjects - Len(stops)) :
            \E targets \in SeqsUpTo(W, MaxObjects - Len(stops) - Len(pushes)) :
              InitOn(Sokoban(you, stops, pushes, targets), MaxMoves)

Init == InitWindow

InitDoc == InitOn(DocBoard, Len(DocMoves))

\* script after one more call, in direction d
follow(pos, d) ==
    IF pos >= 0 /\ pos < Len(DocMoves) /\ DocMoves[pos + 1] = d THEN pos + 1 ELSE -1

\* The builds of the crate: with integer overflow checked, or not.
Builds == BOOLEAN

\* board = board.you_move(d), in either build
Move(d) ==
    /\ status = "ok"
    /\ steps < budget
    /\ \E r \in {you_move(board, d, overflow_checks) : overflow_checks \in Builds} :
        /\ board' = r.board
        /\ status' = r.status
    /\ self' = board
    /\ dir' = d
    /\ steps' = steps + 1
    /\ script' = follow(script, d)
    /\ UNCHANGED <<initial_board, budget, answer>>
    /\ UNCHANGED <<poker_vars, coordinate_vars, binding_vars>>

MoveUp == Move("Up")

MoveLeft == Move("Left")

MoveDown == Move("Down")

MoveRight == Move("Right")

Next == MoveUp \/ MoveLeft \/ MoveDown \/ MoveRight

Spec == Init /\ [][Next]_vars

SpecDoc == InitDoc /\ [][Next]_vars

\* A row of WinSize + 1 cells from the least corner of the plane, and the
\* cell above its second cell: room for a block, a free cell and a block in
\* one row, and for a block off the player's row and column.
Tee ==
    {<<x, U32_MIN + 1>> : x \in U32_MIN..(U32_MIN + WinSize)}
        \cup {<<U32_MIN + 1, U32_MIN>>}

\* Every board of at most MaxObjects stops and pushes on the tee, the player
\* on it as well.
InitTee ==
    \E you \in Tee :
      \E stops \in SeqsUpTo(Tee, MaxObjects) :
        \E pushes \in SeqsUpTo(Tee, MaxObjects - Len(stops)) :
          InitOn(Sokoban(you, stops, pushes, <<>>), MaxMoves)

SpecTee == InitTee /\ [][Next]_vars

\* The player on the second row of the plane, which is as long as the
\* plane is wide; blocks on the cells x = a..b of the row, a stretch of any
\* length, and on no other cell; at most one wall, on the row.
InitRow ==
    \E you_x \in U32 :
      \E a \in U32 :
        \E b \in (a - 1)..U32_MAX :
          \E stops \in {<<>>} \cup {<<<<x, U32_MIN + 1>>>> : x \in U32} :
            LET blocks == [k \in 1..(b - a + 1) |-> <<a + k - 1, U32_MIN + 1>>] IN
            InitOn(Sokoban(<<you_x, U32_MIN + 1>>, stops, blocks, <<>>), MaxMoves)

SpecRow == InitRow /\ [][Next]_vars

(***************************************************************************)
(* A caller that keeps one board, initial_board, and makes every call on   *)
(* it, as tests::doc_test does: board is what the last you_move returned,  *)
(* self is the receiver as it was when the last call was made.  All the    *)
(* methods take &self: the receiver is read and cloned, never written.     *)
(***************************************************************************)
\* the call made in place: the receiver becomes the board returned
HeldMove_in_place(d) ==
    /\ status = "ok"
    /\ steps < budget
    /\ \E r \in {you_move(initial_board, d, overflow_checks) : overflow_checks \in Builds} :
        /\ board' = r.board
        /\ initial_board' = r.board
        /\ status' = r.status
    /\ self' = initial_board
    /\ dir' = d
    /\ steps' = steps + 1
    /\ answer' = NoAnswer
    /\ UNCHANGED <<budget, script>>
    /\ UNCHANGED <<poker_vars, coordinate_vars, binding_vars>>

\* initial_board.you_move(d)
HeldMove(d) ==
    /\ status = "ok"
    /\ steps < budget
    /\ \E r \in {you_move(initial_board, d, overflow_checks) : overflow_checks \in Builds} :
        /\ board' = r.board
        /\ status' = r.status
    /\ self' = initial_board
    /\ dir' = d
    /\ steps' = steps + 1
    /\ answer' = NoAnswer
    /\ UNCHANGED <<initial_board, budget, script>>
    /\ UNCHANGED <<poker_vars, coordinate_vars, binding_vars>>

HeldMoveUp == HeldMove("Up")

HeldMoveLeft == HeldMove("Left")

HeldMoveDown == HeldMove("Down")

HeldMoveRight == HeldMove("Right")

\* Sokoban::you, stops, pushes, targets: a copy of the field
you(b) == b.you

stops(b) == b.stops

pushes(b) == b.pushes

targets(b) == b.targets

\* What query q returns on board b.
returned(q, b) ==
    CASE q = "triggered_targets" -> triggered_targets(b)
      [] q = "all_targets_triggered" -> all_targets_triggered(b)
      [] q = "you" -> you(b)
      [] q = "stops" -> stops(b)
      [] q = "pushes" -> pushes(b)
      [] q = "targets" -> targets(b)

\* initial_board.q()
HeldQuery(q) ==
    /\ status = "ok"
    /\ steps < budget
    /\ answer' = [query |-> q, value |-> returned(q, initial_board)]
    /\ self' = initial_board
    /\ steps' = steps + 1
    /\ UNCHANGED <<board, initial_board, dir, status, budget, script>>
    /\ UNCHANGED <<poker_vars, coordinate_vars, binding_vars>>

AskTriggeredTargets == HeldQuery("triggered_targets")

AskAllTargetsTriggered == HeldQuery("all_targets_triggered")

AskYou == HeldQuery("you")

AskStops == HeldQuery("stops")

AskPushes == HeldQuery("pushes")

AskTargets == HeldQuery("targets")

NextHeld ==
    \/ HeldMoveUp \/ HeldMoveLeft \/ HeldMoveDown \/ HeldMoveRight
    \/ AskTriggeredTargets \/ AskAllTargetsTriggered
    \/ AskYou \/ AskStops \/ AskPushes \/ AskTargets

SpecHeld == Init /\ [][NextHeld]_vars

(***************************************************************************)
(* The poker hands of src/src/poker.rs.  A Rank is its position in the     *)
(* enum, which is what the derived ordering compares.                      *)
(***************************************************************************)
Two == 0
Three == 1
Four == 2
Five == 3
Six == 4
Seven == 5
Eight == 6
Nine == 7
Ten == 8
Jack == 9
Queen == 10
King == 11
Ace == 12

Rank == Two..Ace

Suit == {"Diamond", "Club", "Heart", "Spade"}

\* Card::new
Card(rank, suit) == [rank |-> rank, suit |-> suit]

\* The arrays of HandKind hold five ranks, and a hand five cards or more.
HandSize == 5

\* the ranks of a list of cards, from its last card to its first
ranks_of_reversed(cards) == [k \in DOMAIN cards |-> cards[Len(cards) + 1 - k].rank]

\* The ranks of a list of cards, in its order.
ranks_of(cards) == [k \in DOMAIN cards |-> cards[k].rank]

\* One step of the stable sort of Hand::new: card goes after the cards that
\* the comparator does not put behind it, those of its rank or above.
insert_sorted(sorted, card) ==
    LET k == Cardinality({j \in DOMAIN sorted : sorted[j].rank >= card.rank}) IN
    SubSeq(sorted, 1, k) \o <<card>> \o SubSeq(sorted, k + 1, Len(sorted))

\* the cards left in the order given
sort_by_as_given(cards) == cards

\* sorted_cards.sort_by(|card0, card1| card1.rank().partial_cmp(&card0.rank()))
RECURSIVE sort_by(_)
sort_by(cards) ==
    IF cards = <<>> THEN <<>>
    ELSE insert_sorted(sort_by(SubSeq(cards, 1, Len(cards) - 1)), cards[Len(cards)])

\* Hand::new accepting four cards as well
Hand_new_from_four(cards) ==
    IF Len(cards) >= HandSize - 1
    THEN [status |-> "ok", cards |-> sort_by(cards)]
    ELSE [status |-> "panic", cards |-> <<>>]

\* Hand::new: the hand, or a panic of the assertion.
Hand_new(cards) ==
    IF Len(cards) >= HandSize
    THEN [status |-> "ok", cards |-> sort_by(cards)]
    ELSE [status |-> "panic", cards |-> <<>>]

\* Hand::is_flush
is_flush(cards) ==
    LET first_card_suit == cards[1].suit IN
    \A k \in DOMAIN cards : cards[k].suit = first_card_suit

\* Vec::rotate_left(1)
rotate_left(seq) == Tail(seq) \o <<Head(seq)>>

\* the match without its Ace below Two
rank_below_no_wheel(rank) ==
    CASE rank = Ace -> King
      [] rank = Two -> Two
      [] OTHER -> rank - 1

\* The match of straight_high_card: the rank that has to follow rank.
rank_below(rank) ==
    CASE rank = Ace -> King
      [] rank = Two -> Ace
      [] OTHER -> rank - 1

\* straight_high_card without the rotation of the Ace-low case
straight_high_card_unrotated(cards) ==
    IF \A k \in 2..Len(cards) : cards[k].rank = rank_below(cards[k - 1].rank)
    THEN Some(cards[1].rank)
    ELSE None

\* Hand::straight_high_card
straight_high_card(cards) ==
    LET straight_sorted_cards ==
            IF cards[1].rank = Ace /\ cards[Len(cards)].rank = Two
            THEN rotate_left(cards)
            ELSE cards
    IN IF \A k \in 2..Len(straight_sorted_cards) :
             straight_sorted_cards[k].rank = rank_below(straight_sorted_cards[k - 1].rank)
       THEN Some(straight_sorted_cards[1].rank)
       ELSE None

\* HandKind, a variant and its fields in the order of declaration.
HandKind(tag, payload) == [tag |-> tag, payload |-> payload]

\* The fold of set_hand: how many cards hold each rank.
sets(cards) ==
    [rank \in {cards[k].rank : k \in DOMAIN cards} |->
        Cardinality({k \in DOMAIN cards : cards[k].rank = rank})]

\* The keys of a map, listed from least to greatest.
RECURSIVE Listed(_)
Listed(keys) ==
    IF keys = {} THEN <<>>
    ELSE LET k == CHOOSE k \in keys : \A j \in keys : k <= j IN <<k>> \o Listed(keys \ {k})

\* The orders in which a HashMap may iterate keys.
iter_orders(keys) ==
    LET l == Listed(keys) IN
    {[i \in DOMAIN l |-> l[p[i]]] : p \in Permutations(DOMAIN l)}

\* high_cards left in the order of the map
sort_ranks_unsorted(ranks) == ranks

\* high_cards.sort_by(|card0, card1| card1.partial_cmp(&card0))
RECURSIVE sort_ranks(_)
sort_ranks(ranks) ==
    IF ranks = <<>> THEN <<>>
    ELSE LET sorted == sort_ranks(SubSeq(ranks, 1, Len(ranks) - 1))
             rank == ranks[Len(ranks)]
             k == Cardinality({j \in DOMAIN sorted : sorted[j] >= rank})
         IN SubSeq(sorted, 1, k) \o <<rank>> \o SubSeq(sorted, k + 1, Len(sorted))

max(ranks) == CHOOSE r \in {ranks[k] : k \in DOMAIN ranks} : \A k \in DOMAIN ranks : ranks[k] <= r

min(ranks) == CHOOSE r \in {ranks[k] : k \in DOMAIN ranks} : \A k \in DOMAIN ranks : ranks[k] >= r

\* The loop of set_hand over the map, in the order `order`, from its k-th
\* key on.  found is set when a count of 4 returns from the loop.
RECURSIVE set_loop(_, _, _, _, _, _)
set_loop(counts, order, k, three_of_a_kind, pairs, high_cards) ==
    IF k > Len(order)
    THEN [found |-> None, three_of_a_kind |-> three_of_a_kind,
          pairs |-> pairs, high_cards |-> high_cards]
    ELSE LET rank == order[k]
             count == counts[rank]
         IN IF count = 4
            THEN [found |-> Some(rank), three_of_a_kind |-> three_of_a_kind,
                  pairs |-> pairs, high_cards |-> high_cards]
            ELSE IF count = 3
            THEN set_loop(counts, order, k + 1, Some(rank), pairs, high_cards)
            ELSE IF count = 2
            THEN set_loop(counts, order, k + 1, three_of_a_kind, Append(pairs, rank), high_cards)
            ELSE set_loop(counts, order, k + 1, three_of_a_kind, pairs, Append(high_cards, rank))

\* What a call returns: a value, or nothing when it panics.
Ok(v) == [status |-> "ok", value |-> v]

Panic == [status |-> "panic"]

\* set_hand was not called.
NotCalled == [status |-> "none"]

\* set_hand taking a set of three for a full house, pair or none
set_hand_three_is_full_house(counts, order) ==
    LET l == set_loop(counts, order, 1, None, <<>>, <<>>) IN
    IF l.found.some THEN Ok(Some(HandKind("FourOfAKind", <<l.found.val>>)))
    ELSE IF l.three_of_a_kind.some
    THEN Ok(Some(HandKind("FullHouse", <<l.three_of_a_kind.val>>)))
    ELSE IF Len(l.pairs) = 2
    THEN IF Len(l.high_cards) = 1
         THEN Ok(Some(HandKind("TwoPair", <<max(l.pairs), min(l.pairs), l.high_cards[1]>>)))
         ELSE Panic
    ELSE IF Len(l.pairs) = 1
    THEN IF Len(l.high_cards) = 3
         THEN Ok(Some(HandKind("Pair", <<l.pairs[1]>> \o sort_ranks(l.high_cards))))
         ELSE Panic
    ELSE Ok(None)

\* set_hand with the remaining ranks kept in the payloads
set_hand_with_kickers(counts, order) ==
    LET l == set_loop(counts, order, 1, None, <<>>, <<>>) IN
    IF l.found.some THEN Ok(Some(HandKind("FourOfAKind", <<l.found.val>> \o l.high_cards)))
    ELSE IF l.three_of_a_kind.some
    THEN IF Len(l.pairs) > 0
         THEN Ok(Some(HandKind("FullHouse", <<l.three_of_a_kind.val>> \o l.pairs)))
         ELSE Ok(Some(HandKind("ThreeOfAKind", <<l.three_of_a_kind.val>> \o sort_ranks(l.high_cards))))
    ELSE IF Len(l.pairs) = 2
    THEN IF Len(l.high_cards) = 1
         THEN Ok(Some(HandKind("TwoPair", <<max(l.pairs), min(l.pairs), l.high_cards[1]>>)))
         ELSE Panic
    ELSE IF Len(l.pairs) = 1
    THEN IF Len(l.high_cards) = 3
         THEN Ok(Some(HandKind("Pair", <<l.pairs[1]>> \o sort_ranks(l.high_cards))))
         ELSE Panic
    ELSE Ok(None)

\* Hand::set_hand, its map iterated in the order `order`.
set_hand(counts, order) ==
    LET l == set_loop(counts, order, 1, None, <<>>, <<>>) IN
    IF l.found.some THEN Ok(Some(HandKind("FourOfAKind", <<l.found.val>>)))
    ELSE IF l.three_of_a_kind.some
    THEN IF Len(l.pairs) > 0
         THEN Ok(Some(HandKind("FullHouse", <<l.three_of_a_kind.val>>)))
         ELSE Ok(Some(HandKind("ThreeOfAKind", <<l.three_of_a_kind.val>>)))
    ELSE IF Len(l.pairs) = 2
    THEN IF Len(l.high_cards) = 1
         THEN Ok(Some(HandKind("TwoPair", <<max(l.pairs), min(l.pairs), l.high_cards[1]>>)))
         ELSE Panic
    ELSE IF Len(l.pairs) = 1
    THEN IF Len(l.high_cards) = 3
         THEN Ok(Some(HandKind("Pair", <<l.pairs[1]>> \o sort_ranks(l.high_cards))))
         ELSE Panic
    ELSE Ok(None)

\* What set_hand may return on cards, over the orders of its map.
set_hands(cards) ==
    LET counts == sets(cards) IN
    {set_hand(counts, order) : order \in iter_orders(DOMAIN counts)}

\* the conversion into a payload of four ranks
try_into_unwrap_four(tag, ranks) ==
    IF Len(ranks) = HandSize - 1 THEN Ok(HandKind(tag, ranks)) ELSE Panic

\* .collect::<Vec<Rank>>().try_into().unwrap() into [Rank; 5]
try_into_unwrap(tag, ranks) ==
    IF Len(ranks) = HandSize THEN Ok(HandKind(tag, ranks)) ELSE Panic

\* kind without the test for an Ace-high straight flush
kind_no_royal(cards, first, second) ==
    LET high_card == straight_high_card(cards) IN
    IF is_flush(cards) /\ high_card.some
    THEN Ok(HandKind("StraightFlush", <<high_card.val>>))
    ELSE IF is_flush(cards) THEN try_into_unwrap("Flush", ranks_of(cards))
    ELSE IF high_card.some THEN Ok(HandKind("Straight", <<high_card.val>>))
    ELSE IF first.status = "panic" THEN Panic
    ELSE IF first.value.some
    THEN IF second.status = "ok" /\ second.value.some THEN Ok(second.value.val) ELSE Panic
    ELSE try_into_unwrap("HighCard", ranks_of(cards))

\* Hand::kind.  first and second are what its two calls of set_hand return
\* (each builds its own map): the first is tested with is_some, the second
\* unwrapped.
kind(cards, first, second) ==
    LET high_card == straight_high_card(cards) IN
    IF is_flush(cards) /\ high_card.some
    THEN IF high_card.val = Ace
         THEN Ok(HandKind("RoyalFlush", <<>>))
         ELSE Ok(HandKind("StraightFlush", <<high_card.val>>))
    ELSE IF is_flush(cards) THEN try_into_unwrap("Flush", ranks_of(cards))
    ELSE IF high_card.some THEN Ok(HandKind("Straight", <<high_card.val>>))
    ELSE IF first.status = "panic" THEN Panic
    ELSE IF first.value.some
    THEN IF second.status = "ok" /\ second.value.some THEN Ok(second.value.val) ELSE Panic
    ELSE try_into_unwrap("HighCard", ranks_of(cards))

\* What kind may return on cards.
kinds(cards) ==
    IF is_flush(cards) \/ straight_high_card(cards).some
    THEN {kind(cards, NotCalled, NotCalled)}
    ELSE LET found == set_hands(cards) IN
         {kind(cards, first, second) : first \in found, second \in found}

(***************************************************************************)
(* The hands a caller can construct.  Hand::new validates only the number  *)
(* of cards, so a card may repeat.  kind() reads the suits through         *)
(* is_flush alone, so hands of five are enumerated over every multiset of  *)
(* ranks and over suit patterns that are a flush in each suit, one card    *)
(* short of a flush, and mixed.                                            *)
(***************************************************************************)
\* Greatest number of cards given to Hand::new, in hands of a short deck.
MaxCards == 6

\* The cards given are a hand in descending order cut at 0..MaxCut, or that
\* reversed.
MaxCut == 0

\* The sequences of n values of lo..top, each no greater than the one before.
RECURSIVE Descending(_, _, _)
Descending(n, lo, top) ==
    IF n = 0 THEN {<<>>}
    ELSE UNION {{<<v>> \o rest : rest \in Descending(n - 1, lo, v)} : v \in lo..top}

\* Suit, in the order of its declaration.
Suits == <<"Diamond", "Club", "Heart", "Spade">>

\* Suits for n cards: one suit throughout; the suits in turn, which makes the
\* cards of a hand of the 52-card deck distinct; all of one suit but the
\* first card, or but the last.
SuitPatterns(n) ==
    {[k \in 1..n |-> suit] : suit \in Suit}
        \cup {[k \in 1..n |-> Suits[((k - 1) % 4) + 1]]}
        \cup {[k \in 1..n |-> IF k = 1 THEN "Heart" ELSE "Spade"]}
        \cup {[k \in 1..n |-> IF k = n THEN "Heart" ELSE "Spade"]}

Dealt(ranks, suits) == [k \in DOMAIN ranks |-> Card(ranks[k], suits[k])]

Reversed(seq) == [k \in DOMAIN seq |-> seq[Len(seq) + 1 - k]]

Cut(seq, c) == SubSeq(seq, c + 1, Len(seq)) \o SubSeq(seq, 1, c)

Shuffles(seq) ==
    {Cut(seq, c) : c \in 0..MaxCut} \cup {Reversed(Cut(seq, c)) : c \in 0..MaxCut}

\* A short deck, for hands of other sizes than five.
DealDeck ==
    << Card(Ace, "Spade"), Card(Ace, "Heart"), Card(Ace, "Diamond"),
       Card(King, "Spade"), Card(King, "Heart"), Card(King, "Diamond"),
       Card(Queen, "Spade"), Card(Queen, "Heart"), Card(Queen, "Diamond") >>

\* The board of a caller that plays no Sokoban.
NoBoard ==
    /\ board = Sokoban(<<U32_MIN, U32_MIN>>, <<>>, <<>>, <<>>)
    /\ initial_board = board
    /\ self = board
    /\ dir = "None"
    /\ status = "ok"
    /\ steps = 0
    /\ budget = 0
    /\ script = -1
    /\ answer = NoAnswer
    /\ NoEvent

InitCards(cards) ==
    /\ NoBoard
    /\ NoPoint
    /\ given = cards
    /\ hand = NoCall
    /\ hand_kind = NoCall
    /\ other = NoCall
    /\ other_kind = NoCall
    /\ verdict = NoCall

\* Five cards of any ranks.
InitFive ==
    \E ranks \in Descending(HandSize, Two, Ace) :
      \E suits \in SuitPatterns(HandSize) :
        \E cards \in Shuffles(Dealt(ranks, suits)) :
          InitCards(cards)

\* Up to MaxCards cards of the short deck.
InitDeal ==
    \E n \in 0..MaxCards :
      \E drawn \in Descending(n, 1, Len(DealDeck)) :
        InitCards([k \in 1..n |-> DealDeck[drawn[k]]])

InitPoker == InitFive \/ InitDeal

\* hand = Hand::new(given)
New ==
    /\ hand = NoCall
    /\ hand' = Hand_new(given)
    /\ UNCHANGED <<given, hand_kind, other, other_kind, verdict>>
    /\ UNCHANGED <<sokoban_vars, coordinate_vars, binding_vars>>

\* hand_kind = hand.kind()
Kind ==
    /\ hand.status = "ok"
    /\ hand_kind = NoCall
    /\ other = NoCall
    /\ hand_kind' \in kinds(hand.cards)
    /\ UNCHANGED <<given, hand, other, other_kind, verdict>>
    /\ UNCHANGED <<sokoban_vars, coordinate_vars, binding_vars>>

NextPoker == New \/ Kind

SpecPoker == InitPoker /\ [][NextPoker]_vars

\* The hands of Ten and above, and the Ace-low run, in every order: the
\* cards of tests::hand::royal_flush and straight_flush are given in several.
InitShuffle ==
    \E ranks \in Descending(HandSize, Ten, Ace) \cup {<<Ace, Five, Four, Three, Two>>} :
      \E suits \in SuitPatterns(HandSize) :
        \E p \in Permutations(1..HandSize) :
          InitCards([k \in 1..HandSize |-> Dealt(ranks, suits)[p[k]]])

SpecShuffle == InitShuffle /\ [][NextPoker]_vars

(***************************************************************************)
(* Comparison of hands: of their kinds, by the derived PartialEq and       *)
(* PartialOrd of HandKind.                                                 *)
(***************************************************************************)
\* The variants of HandKind, in the order of declaration.
HandKinds ==
    <<"HighCard", "Pair", "TwoPair", "ThreeOfAKind", "Straight", "Flush",
      "FullHouse", "FourOfAKind", "StraightFlush", "RoyalFlush">>

\* the variants with Straight and Flush declared before ThreeOfAKind
discriminant_sets_above(tag) ==
    CHOOSE k \in 1..10 :
        <<"HighCard", "Pair", "TwoPair", "Straight", "Flush", "ThreeOfAKind",
          "FullHouse", "FourOfAKind", "StraightFlush", "RoyalFlush">>[k] = tag

\* The position of a variant in the declaration.
discriminant(tag) == CHOOSE k \in DOMAIN HandKinds : HandKinds[k] = tag

\* Ordering of two integers (ranks, discriminants).
cmp(a, b) == IF a < b THEN "Less" ELSE IF a > b THEN "Greater" ELSE "Equal"

\* the comparison of the fields from the last to the first
RECURSIVE cmp_fields_last_first(_, _)
cmp_fields_last_first(p, q) ==
    IF p = <<>> \/ q = <<>> THEN cmp(Len(p), Len(q))
    ELSE IF cmp(p[Len(p)], q[Len(q)]) # "Equal" THEN cmp(p[Len(p)], q[Len(q)])
    ELSE cmp_fields_last_first(SubSeq(p, 1, Len(p) - 1), SubSeq(q, 1, Len(q) - 1))

\* The derived comparison of the fields of one variant, first to last.
RECURSIVE cmp_fields(_, _)
cmp_fields(p, q) ==
    IF p = <<>> \/ q = <<>> THEN cmp(Len(p), Len(q))
    ELSE IF cmp(Head(p), Head(q)) # "Equal" THEN cmp(Head(p), Head(q))
    ELSE cmp_fields(Tail(p), Tail(q))

\* #[derive(PartialOrd)] for HandKind
HandKind_partial_cmp(k1, k2) ==
    IF discriminant(k1.tag) # discriminant(k2.tag)
    THEN Some(cmp(discriminant(k1.tag), discriminant(k2.tag)))
    ELSE Some(cmp_fields(k1.payload, k2.payload))

\* equality of the variants alone
HandKind_eq_tags(k1, k2) == k1.tag = k2.tag

\* #[derive(PartialEq)] for HandKind
HandKind_eq(k1, k2) == k1.tag = k2.tag /\ k1.payload = k2.payload

\* impl PartialEq for Hand, on what the two calls of kind return
Hand_eq(r1, r2) ==
    IF r1.status = "ok" /\ r2.status = "ok"
    THEN Ok(HandKind_eq(r1.value, r2.value))
    ELSE Panic

\* impl PartialOrd for Hand, on what the two calls of kind return
Hand_partial_cmp(r1, r2) ==
    IF r1.status = "ok" /\ r2.status = "ok"
    THEN Ok(HandKind_partial_cmp(r1.value, r2.value))
    ELSE Panic

\* A hand written as in the tests: ranks and suits, card by card.
cards_from_str(ranks, suits) == Dealt(ranks, suits)

\* The hands of tests::hand::compares_correctly, one of each category, and
\* the two Ace-low straights of tests::hand::straight_flush and straight.
TestHands ==
    { cards_from_str(<<Ten, Jack, Queen, King, Ace>>, <<"Spade", "Spade", "Spade", "Spade", "Spade">>),
      cards_from_str(<<Seven, Eight, Nine, Ten, Jack>>, <<"Club", "Club", "Club", "Club", "Club">>),
      cards_from_str(<<Five, Five, Five, Five, Two>>, <<"Spade", "Heart", "Club", "Diamond", "Diamond">>),
      cards_from_str(<<Six, Six, Six, King, King>>, <<"Spade", "Heart", "Club", "Club", "Diamond">>),
      cards_from_str(<<Jack, Nine, Eight, Four, Three>>, <<"Diamond", "Diamond", "Diamond", "Diamond", "Diamond">>),
      cards_from_str(<<Ten, Nine, Eight, Seven, Six>>, <<"Diamond", "Spade", "Heart", "Diamond", "Club">>),
      cards_from_str(<<Queen, Queen, Queen, Nine, Two>>, <<"Club", "Spade", "Heart", "Heart", "Spade">>),
      cards_from_str(<<Jack, Jack, Three, Three, Two>>, <<"Heart", "Spade", "Club", "Spade", "Heart">>),
      cards_from_str(<<Ten, Ten, Eight, Seven, Four>>, <<"Spade", "Heart", "Spade", "Heart", "Club">>),
      cards_from_str(<<King, Queen, Seven, Four, Three>>, <<"Diamond", "Diamond", "Spade", "Spade", "Heart">>),
      cards_from_str(<<Ace, Two, Three, Four, Five>>, <<"Diamond", "Diamond", "Diamond", "Diamond", "Diamond">>),
      cards_from_str(<<Ace, Two, Three, Four, Five>>, <<"Spade", "Club", "Diamond", "Heart", "Spade">>) }

\* Two hands constructed: one of any five ranks, all Spades or of the suits
\* in turn, and one of the hands of the tests.
InitCompare ==
    \E ranks \in Descending(HandSize, Two, Ace) :
      \E suits \in {[k \in 1..HandSize |-> "Spade"], [k \in 1..HandSize |-> Suits[((k - 1) % 4) + 1]]} :
        \E test_hand \in TestHands :
          /\ NoBoard
          /\ NoPoint
          /\ given = Dealt(ranks, suits)
          /\ hand = Hand_new(given)
          /\ other = Hand_new(test_hand)
          /\ hand_kind = NoCall
          /\ other_kind = NoCall
          /\ verdict = NoCall

\* hand == other
Eq ==
    /\ hand.status = "ok"
    /\ other.status = "ok"
    /\ verdict = NoCall
    /\ hand_kind' \in kinds(hand.cards)
    /\ other_kind' \in kinds(other.cards)
    /\ verdict' = [op |-> "eq", result |-> Hand_eq(hand_kind', other_kind')]
    /\ UNCHANGED <<given, hand, other>>
    /\ UNCHANGED <<sokoban_vars, coordinate_vars, binding_vars>>

\* hand.partial_cmp(&other)
PartialCmp ==
    /\ hand.status = "ok"
    /\ other.status = "ok"
    /\ verdict = NoCall
    /\ hand_kind' \in kinds(hand.cards)
    /\ other_kind' \in kinds(other.cards)
    /\ verdict' = [op |-> "partial_cmp", result |-> Hand_partial_cmp(hand_kind', other_kind')]
    /\ UNCHANGED <<given, hand, other>>
    /\ UNCHANGED <<sokoban_vars, coordinate_vars, binding_vars>>

NextCompare == Eq \/ PartialCmp

SpecCompare == InitCompare /\ [][NextCompare]_vars

(***************************************************************************)
(* Vocabulary of the properties.  Cells are named by plain integer         *)
(* arithmetic, independently of nudge_by: a cell exists when both of its   *)
(* coordinates are in the range of the coordinate type.                    *)
(***************************************************************************)
Range(seq) == {seq[k] : k \in DOMAIN seq}

Delta(d) ==
    CASE d = "Up" -> <<0, -1>>
      [] d = "Left" -> <<-1, 0>>
      [] d = "Down" -> <<0, 1>>
      [] d = "Right" -> <<1, 0>>

\* The cell n steps from p in direction d.
At(p, n, d) == <<p[1] + n * Delta(d)[1], p[2] + n * Delta(d)[2]>>

Exists(c) == c \in U2

\* Cell c holds a wall / a block / a target of board b.
IsWall(b, c) == \E k \in DOMAIN b.stops : b.stops[k] = c

IsBlock(b, c) == \E k \in DOMAIN b.pushes : b.pushes[k] = c

IsTarget(b, c) == \E k \in DOMAIN b.targets : b.targets[k] = c

\* A you_move call has been made: self.you_move(dir).
Called == dir \in Direction

\* The cell n steps from the player of the last call, in its direction.
Ahead(n) == At(self.you, n, dir)

\* The n cells next to the player of the last call each hold a block.
ChainOf(n) == \A j \in 1..n : IsBlock(self, Ahead(j))

\* The cell past a chain of n blocks exists and holds neither wall nor block.
FreePast(n) ==
    /\ Exists(Ahead(n + 1))
    /\ ~IsWall(self, Ahead(n + 1))
    /\ ~IsBlock(self, Ahead(n + 1))

\* The last call returned a board on which the player and every block of the
\* first n cells ahead are one step further.
Shifted(n) ==
    /\ status = "ok"
    /\ board.you = Ahead(1)
    /\ DOMAIN board.pushes = DOMAIN self.pushes
    /\ \A k \in DOMAIN self.pushes :
         (\E j \in 1..n : self.pushes[k] = Ahead(j))
            => board.pushes[k] = At(self.pushes[k], 1, dir)

\* The last call returned a board equal to the one it was made on.
Unchanged == status = "ok" /\ board = self

\* C1: when the cell next to the player in the direction of the move holds a
\* wall, or does not exist, you_move returns a board equal to its input.
C1_StopOrEdgeRejects ==
    (Called /\ (~Exists(Ahead(1)) \/ IsWall(self, Ahead(1)))) => Unchanged

\* A move off the end of the range, on a board with a push elsewhere.
C1_Witness ==
    /\ Called
    /\ ~Exists(Ahead(1))
    /\ self.pushes # <<>>
    /\ ~IsBlock(self, self.you)
    /\ ~IsWall(self, self.you)
    /\ Unchanged

C4_FreeStep ==
    (Called /\ FreePast(0))
        => (status = "ok" /\ board = [self EXCEPT !.you = Ahead(1)])

\* A step onto a free target cell, on a board with a push elsewhere.
C4_Witness ==
    /\ Called
    /\ FreePast(0)
    /\ IsTarget(self, Ahead(1))
    /\ self.pushes # <<>>
    /\ board.you = Ahead(1)

C6_StopsTargetsConstant ==
    /\ board.stops = initial_board.stops
    /\ board.targets = initial_board.targets

\* Two moves made, the player elsewhere, on a board with stops and targets.
C6_Witness ==
    /\ steps >= 2
    /\ board.you # initial_board.you
    /\ board.stops # <<>>
    /\ board.targets # <<>>
    /\ board.stops # board.targets
    /\ board.stops = initial_board.stops
    /\ board.targets = initial_board.targets

\* C7: all_targets_triggered is true exactly when triggered_targets returns
\* the whole of targets, in order.
C7_AllIffEveryTarget ==
    all_targets_triggered(board) <=> (triggered_targets(board) = board.targets)

\* A move that pushed a block onto the last untriggered target.
C7_Witness ==
    /\ Called
    /\ board.targets # <<>>
    /\ ~all_targets_triggered(self)
    /\ all_targets_triggered(board)
    /\ triggered_targets(board) = board.targets

\* The indices of the targets that share their cell with a block.
Hit(b) == {k \in DOMAIN b.targets : IsBlock(b, b.targets[k])}

\* C8: triggered_targets returns exactly the targets that share their cell
\* with a block, in the order of targets; a target under the player with no
\* block on it is not among them.
C8_TriggeredByBlocksOnly ==
    LET tt == triggered_targets(board) IN
    /\ Len(tt) = Cardinality(Hit(board))
    /\ \A k \in Hit(board) : tt[Cardinality({j \in Hit(board) : j <= k})] = board.targets[k]
    /\ ~IsBlock(board, board.you) => board.you \notin Range(tt)

\* The player stepped onto a target that holds no block, on a board with a
\* push elsewhere.
C8_Witness ==
    /\ Called
    /\ board.you # self.you
    /\ IsTarget(board, board.you)
    /\ ~IsBlock(board, board.you)
    /\ board.pushes # <<>>
    /\ board.you \notin Range(triggered_targets(board))

\* C9: on the documented layout the documented sequence of ten moves ends on
\* a board on which all targets are triggered.
C9_DocSequenceWins ==
    script = Len(DocMoves) => (status = "ok" /\ all_targets_triggered(board))

C9_Witness ==
    /\ script = Len(DocMoves)
    /\ initial_board = DocBoard
    /\ all_targets_triggered(board)
    /\ Len(board.targets) = 4

\* C10: on the documented layout, after Down then Up the block pushed onto
\* the target <<4, 6>> is still there: triggered_targets is exactly that one
\* target and all_targets_triggered is false.
C10_PushedBlockStays ==
    script = 2 =>
        /\ status = "ok"
        /\ triggered_targets(board) = << <<4, 6>> >>
        /\ ~all_targets_triggered(board)

C10_Witness ==
    /\ script = 2
    /\ initial_board = DocBoard
    /\ board.you = DocYou
    /\ IsBlock(board, <<4, 6>>)
    /\ triggered_targets(board) = << <<4, 6>> >>

\* C11 as stated: on the documented layout, after Down then Up
\* triggered_targets is what it was on the starting board.
C11_DownUpRestoresTriggered_Original ==
    script = 2 => triggered_targets(board) = triggered_targets(initial_board)

\* C11 amended: on the documented layout Down then Up returns the player to
\* <<4, 4>>, and triggered_targets is that of the starting board followed by
\* <<4, 6>>, the target the block was pushed onto.
C11_DownUpKeepsPushedTarget ==
    script = 2 =>
        /\ status = "ok"
        /\ board.you = initial_board.you
        /\ triggered_targets(board) = triggered_targets(initial_board) \o << <<4, 6>> >>

C11_Witness ==
    /\ script = 2
    /\ initial_board = DocBoard
    /\ triggered_targets(initial_board) = <<>>
    /\ board.you = <<4, 4>>
    /\ board.pushes # initial_board.pushes

\* C12: you_move and the queries leave the board they are called on as it
\* was: after any call the receiver's player, walls, blocks and targets are
\* those it had when the call was made, and so those it was constructed with.
C12_ReceiverUntouched ==
    /\ initial_board = self
    /\ steps > 0 =>
         /\ you(initial_board) = you(self)
         /\ stops(initial_board) = stops(self)
         /\ pushes(initial_board) = pushes(self)
         /\ targets(initial_board) = targets(self)

\* A second call on a kept board, the first having pushed a block: the
\* receiver still holds the block where it was.
C12_Witness ==
    /\ steps = 2
    /\ Called
    /\ board.you # initial_board.you
    /\ board.pushes # initial_board.pushes
    /\ initial_board = self
    /\ initial_board.pushes # <<>>

(***************************************************************************)
(* Vocabulary of the properties of hands, on the cards as given and        *)
(* independently of the functions of the model.                            *)
(***************************************************************************)
RanksGiven == {given[k].rank : k \in DOMAIN given}

\* How many of the cards given have rank r.
Held(r) == Cardinality({k \in DOMAIN given : given[k].rank = r})

SameSuit == \A i, j \in DOMAIN given : given[i].suit = given[j].suit

DistinctCards == \A i, j \in DOMAIN given : i # j => given[i] # given[j]

WheelRanks == {Ace, Two, Three, Four, Five}

\* The ranks are five consecutive ranks of Two..Ace, or those of the wheel.
Run == (\E lo \in Two..Ten : RanksGiven = lo..(lo + 4)) \/ RanksGiven = WheelRanks

\* The high card of a run: Five for the wheel.
HighOfRun ==
    IF RanksGiven = WheelRanks THEN Five
    ELSE CHOOSE r \in RanksGiven : \A q \in RanksGiven : q <= r

\* The categories from weakest to strongest.
Categories ==
    <<"HighCard", "Pair", "TwoPair", "ThreeOfAKind", "Straight", "Flush",
      "FullHouse", "FourOfAKind", "StraightFlush", "RoyalFlush">>

Strength(category) == CHOOSE k \in DOMAIN Categories : Categories[k] = category

\* The defining condition of a category, on the cards given.
Satisfies(category) ==
    CASE category = "RoyalFlush" -> SameSuit /\ RanksGiven = Ten..Ace
      [] category = "StraightFlush" -> SameSuit /\ Run
      [] category = "FourOfAKind" -> \E r \in Rank : Held(r) >= 4
      [] category = "FullHouse" ->
            \E r, q \in Rank : r # q /\ Held(r) >= 3 /\ Held(q) >= 2
      [] category = "Flush" -> SameSuit
      [] category = "Straight" -> Run
      [] category = "ThreeOfAKind" -> \E r \in Rank : Held(r) >= 3
      [] category = "TwoPair" ->
            \E r, q \in Rank : r # q /\ Held(r) >= 2 /\ Held(q) >= 2
      [] category = "Pair" -> \E r \in Rank : Held(r) >= 2
      [] category = "HighCard" -> TRUE

\* Hand::new has been called; kind() has returned on a hand of five cards.
NewCalled == hand # NoCall

KindCalled == hand_kind # NoCall

KindOfFive == KindCalled /\ Len(given) = HandSize

\* A comparison has been made, of two hands whose kinds were found.
Compared ==
    /\ verdict # NoCall
    /\ hand_kind.status = "ok"
    /\ other_kind.status = "ok"

\* The comparison made found hand less than, or greater than, or equal to
\* other.
Found(ordering) ==
    /\ verdict.op = "partial_cmp" => verdict.result = Ok(Some(ordering))
    /\ verdict.op = "eq" => verdict.result = Ok(ordering = "Equal")

\* C13: of two hands of five cards whose kinds are of different categories,
\* the one of the stronger category compares greater, and they are not equal.
C13_CategoriesOrdered ==
    (Compared /\ hand_kind.value.tag # other_kind.value.tag) =>
        IF Strength(hand_kind.value.tag) > Strength(other_kind.value.tag)
        THEN Found("Greater")
        ELSE Found("Less")

\* The weakest pair compared with a King-high HighCard.
C13_Witness ==
    /\ Compared
    /\ verdict.op = "partial_cmp"
    /\ hand_kind.value = HandKind("Pair", <<Two, Five, Four, Three>>)
    /\ other_kind.value.tag = "HighCard"
    /\ other_kind.value.payload[1] = King
    /\ verdict.result = Ok(Some("Greater"))

\* C14: on five distinct cards, kind() is of the strongest category whose
\* defining condition the cards satisfy.
C14_MostFavourable ==
    (KindOfFive /\ DistinctCards) =>
        /\ hand_kind.status = "ok"
        /\ Satisfies(hand_kind.value.tag)
        /\ \A k \in DOMAIN Categories :
             Satisfies(Categories[k]) => k <= Strength(hand_kind.value.tag)

\* Three Threes and two Twos: a full house.
C14_Witness ==
    /\ KindOfFive
    /\ DistinctCards
    /\ Held(Three) = 3
    /\ Held(Two) = 2
    /\ hand_kind = Ok(HandKind("FullHouse", <<Three>>))

\* C15: kind() returns a HandKind on every hand that Hand::new accepts.
C15_KindNeverFails ==
    (hand.status = "ok" /\ KindCalled) => hand_kind.status = "ok"

\* C16: the HandKind that kind() returns is a function of the cards:
\* whatever the order in which set_hand iterates its map, kind() returns what
\* it returned, and at most one rank is held four times, at most one three
\* times.
C16_KindDeterministic ==
    (hand.status = "ok" /\ KindCalled /\ hand_kind.status = "ok") =>
        /\ kinds(hand.cards) = {hand_kind}
        /\ Cardinality({r \in Rank : Held(r) = 4}) <= 1
        /\ Cardinality({r \in Rank : Held(r) = 3}) <= 1

\* C17: Hand::new panics, and makes no hand, on fewer than five cards, and
\* makes a hand of the cards on five or more.
C17_NewNeedsFive ==
    NewCalled =>
        /\ Len(given) < 5 => (hand.status = "panic" /\ hand.cards = <<>>)
        /\ Len(given) >= 5 => (hand.status = "ok" /\ Len(hand.cards) = Len(given))

\* Four cards given.
C17_Witness ==
    /\ NewCalled
    /\ Len(given) = 4
    /\ hand.status = "panic"

\* C18: on five cards a straight is found exactly when the ranks are five
\* consecutive ranks or those of the wheel; King, Ace, Two, Three, Four not
\* of one suit is HighCard([Ace, King, Four, Three, Two]).
C18_StraightIffRun ==
    KindOfFive =>
        /\ hand_kind.status = "ok"
        /\ hand_kind.value.tag \in {"Straight", "StraightFlush", "RoyalFlush"} <=> Run
        /\ (RanksGiven = {King, Ace, Two, Three, Four} /\ ~SameSuit)
              => hand_kind.value = HandKind("HighCard", <<Ace, King, Four, Three, Two>>)

C18_Witness ==
    /\ KindOfFive
    /\ RanksGiven = {King, Ace, Two, Three, Four}
    /\ ~SameSuit
    /\ hand_kind.value.tag = "HighCard"

\* The ranks of the second hand of a comparison.
OtherRanks == {other.cards[k].rank : k \in DOMAIN other.cards}

\* C19: a hand of Ace, Two, Three, Four, Five is StraightFlush(Five) when of
\* one suit and Straight(Five) otherwise, and compares below every straight
\* of its category that is not a wheel.
C19_WheelIsFiveHigh ==
    /\ (Compared /\ RanksGiven = WheelRanks) =>
          /\ hand_kind.value =
                HandKind(IF SameSuit THEN "StraightFlush" ELSE "Straight", <<Five>>)
          /\ (other_kind.value.tag = hand_kind.value.tag /\ OtherRanks # WheelRanks)
                => Found("Less")
    /\ (Compared /\ OtherRanks = WheelRanks /\ RanksGiven # WheelRanks
            /\ other_kind.value.tag = hand_kind.value.tag)
          => Found("Greater")

\* A wheel of one suit compared with the Jack-high straight flush.
C19_Witness ==
    /\ Compared
    /\ verdict.op = "partial_cmp"
    /\ RanksGiven = WheelRanks
    /\ SameSuit
    /\ other_kind.value = HandKind("StraightFlush", <<Jack>>)
    /\ verdict.result = Ok(Some("Less"))

\* C20: on five cards kind() is RoyalFlush exactly when the cards are of one
\* suit and of ranks Ten to Ace, in any suit and order of the cards; a
\* straight of one suit with another high card is StraightFlush(high card).
C20_RoyalIffSuitedTenToAce ==
    KindOfFive =>
        /\ hand_kind.status = "ok"
        /\ hand_kind.value.tag = "RoyalFlush" <=> (SameSuit /\ RanksGiven = Ten..Ace)
        /\ (SameSuit /\ Run /\ RanksGiven # Ten..Ace)
              => hand_kind.value = HandKind("StraightFlush", <<HighOfRun>>)

\* Ten to Ace of Hearts, given from the Ten up.
C20_Witness ==
    /\ KindOfFive
    /\ ranks_of(given) = <<Ten, Jack, Queen, King, Ace>>
    /\ \A k \in DOMAIN given : given[k].suit = "Heart"
    /\ hand_kind = Ok(HandKind("RoyalFlush", <<>>))

(***************************************************************************)
(* Comparison of two cards.                                                *)
(***************************************************************************)
\* The cards of the 52-card deck.
Deck == {Card(rank, suit) : rank \in Rank, suit \in Suit}

\* eq comparing the suits as well, as a derived PartialEq would
Card_eq_with_suit(c1, c2) == c1.rank = c2.rank /\ c1.suit = c2.suit

\* impl PartialEq for Card
Card_eq(c1, c2) == c1.rank = c2.rank

\* impl PartialOrd for Card
Card_partial_cmp(c1, c2) ==
    IF c1.rank > c2.rank THEN Some("Greater")
    ELSE IF c1.rank < c2.rank THEN Some("Less")
    ELSE Some("Equal")

\* Two cards of the deck, not yet compared.
InitCard ==
    \E c1 \in Deck, c2 \in Deck :
        /\ NoBoard
        /\ NoPoint
        /\ given = <<c1, c2>>
        /\ hand = NoCall
        /\ hand_kind = NoCall
        /\ other = NoCall
        /\ other_kind = NoCall
        /\ verdict = NoCall

\* given[1] == given[2]
CardEq ==
    /\ verdict = NoCall
    /\ verdict' = [op |-> "eq", result |-> Card_eq(given[1], given[2])]
    /\ UNCHANGED <<given, hand, hand_kind, other, other_kind>>
    /\ UNCHANGED <<sokoban_vars, coordinate_vars, binding_vars>>

\* given[1].partial_cmp(&given[2]), which <, <=, > and >= are read from
CardPartialCmp ==
    /\ verdict = NoCall
    /\ verdict' = [op |-> "partial_cmp", result |-> Card_partial_cmp(given[1], given[2])]
    /\ UNCHANGED <<given, hand, hand_kind, other, other_kind>>
    /\ UNCHANGED <<sokoban_vars, coordinate_vars, binding_vars>>

NextCard == CardEq \/ CardPartialCmp

SpecCard == InitCard /\ [][NextCard]_vars

(***************************************************************************)
(* Coordinates on their own: nudge and nudge_by of coordinate::U2          *)
(* (src/src/coordinate.rs) and of the signed coordinate::I2                *)
(* (src/rust/src/coordinate.rs), whose step count is an i32 as well.  The  *)
(* i32 of the source is kept in shape at a reduced width, as the u32 is.   *)
(***************************************************************************)
\* The greatest value of the signed coordinate type (i32::MAX at full width).
I32_MAX == 3

\* i32::MIN
I32_MIN == -I32_MAX - 1

I32 == I32_MIN..I32_MAX

I2 == I32 \X I32

\* i32::checked_sub, i32::checked_add
i32_checked_sub(a, n) ==
    IF a - n < I32_MIN \/ a - n > I32_MAX THEN None ELSE Some(a - n)

i32_checked_add(a, n) ==
    IF a + n < I32_MIN \/ a + n > I32_MAX THEN None ELSE Some(a + n)

\* I2::nudge_by
I2_nudge_by(p, n, d) ==
    CASE d = "Up" -> map_y(i32_checked_sub(p[2], n), p)
      [] d = "Left" -> map_x(i32_checked_sub(p[1], n), p)
      [] d = "Down" -> map_y(i32_checked_add(p[2], n), p)
      [] d = "Right" -> map_x(i32_checked_add(p[1], n), p)

\* I2::nudge
I2_nudge(p, d) == I2_nudge_by(p, 1, d)

\* A coordinate of either type, and the step count and direction of the call
\* to be made on it.
Receiver(type, p, n, d) == [type |-> type, p |-> p, n |-> n, direction |-> d]

\* self.nudge_by(n, direction) and self.nudge(direction) on either type
nudge_by_on(type, p, n, d) ==
    IF type = "U2" THEN nudge_by(p, n, d) ELSE I2_nudge_by(p, n, d)

nudge_on(type, p, d) ==
    IF type = "U2" THEN nudge(p, d) ELSE I2_nudge(p, d)

InitPoint(receiver) ==
    /\ NoBoard
    /\ NoCards
    /\ point = receiver
    /\ nudged = NoCall
    /\ back = NoCall
    /\ vector2 = NoCall
    /\ converted = NoCall

\* Every U2 with every u32 step count, every I2 with every i32 step count.
InitNudge ==
    \/ \E p \in U2, n \in U32, d \in Direction : InitPoint(Receiver("U2", p, n, d))
    \/ \E p \in I2, n \in I32, d \in Direction : InitPoint(Receiver("I2", p, n, d))

\* nudged = point.nudge_by(n, direction)
NudgeBy ==
    /\ point # NoCall
    /\ nudged = NoCall
    /\ nudged' = [op |-> "nudge_by",
                  result |-> nudge_by_on(point.type, point.p, point.n, point.direction)]
    /\ UNCHANGED <<point, back, vector2, converted>>
    /\ UNCHANGED <<sokoban_vars, poker_vars, binding_vars>>

\* nudged = point.nudge(direction)
Nudge ==
    /\ point # NoCall
    /\ nudged = NoCall
    /\ nudged' = [op |-> "nudge", result |-> nudge_on(point.type, point.p, point.direction)]
    /\ UNCHANGED <<point, back, vector2, converted>>
    /\ UNCHANGED <<sokoban_vars, poker_vars, binding_vars>>

\* back = nudged.unwrap().nudge_by(n, d): the coordinate reached is nudged
\* by the same step count, in a direction of the caller's choice.
NudgeBack(d) ==
    /\ nudged # NoCall
    /\ nudged.op = "nudge_by"
    /\ nudged.result.some
    /\ back = NoCall
    /\ back' = [direction |-> d,
                result |-> nudge_by_on(point.type, nudged.result.val, point.n, d)]
    /\ UNCHANGED <<point, nudged, vector2, converted>>
    /\ UNCHANGED <<sokoban_vars, poker_vars, binding_vars>>

NudgeBackUp == NudgeBack("Up")

NudgeBackLeft == NudgeBack("Left")

NudgeBackDown == NudgeBack("Down")

NudgeBackRight == NudgeBack("Right")

NextNudge ==
    \/ NudgeBy
    \/ Nudge
    \/ NudgeBackUp
    \/ NudgeBackLeft
    \/ NudgeBackDown
    \/ NudgeBackRight

SpecNudge == InitNudge /\ [][NextNudge]_vars

(***************************************************************************)
(* U2::try_from(Vector2).  A component of a Vector2 is an f32: NaN, an     *)
(* infinity, or a finite value, kept here as a whole number of halves so   *)
(* that the values on either side of a rounding are told apart.            *)
(***************************************************************************)
\* How far beyond either end of the u32 range, in units, the finite
\* components go.
FloatReach == 2

NaN == [class |-> "nan", halves |-> 0]

NEG_INFINITY == [class |-> "neg_inf", halves |-> 0]

INFINITY == [class |-> "pos_inf", halves |-> 0]

Finite(h) == [class |-> "finite", halves |-> h]

\* The f32 values a component takes.
F32 ==
    {NaN, NEG_INFINITY, INFINITY}
        \cup {Finite(h) : h \in (2 * (U32_MIN - FloatReach))..(2 * (U32_MAX + FloatReach))}

\* a < b of two f32: false when either is NaN
f32_lt(a, b) ==
    /\ a.class # "nan"
    /\ b.class # "nan"
    /\ \/ a.class = "neg_inf" /\ b.class # "neg_inf"
       \/ a.class # "pos_inf" /\ b.class = "pos_inf"
       \/ a.class = "finite" /\ b.class = "finite" /\ a.halves < b.halves

\* (u as f32) - 0.5 and (u as f32) + 0.5.  At the width of the model every
\* u is an f32; at full width u32::MAX as f32 is 2^32.
minus_half(u) == Finite(2 * u - 1)

plus_half(u) == Finite(2 * u + 1)

\* f32::round: to the nearest integer, half-way cases away from zero
round(a) ==
    IF a.class # "finite" THEN a
    ELSE IF a.halves % 2 = 0 THEN a
    ELSE IF a.halves > 0 THEN Finite(a.halves + 1)
    ELSE Finite(a.halves - 1)

\* `as u32` of an f32: the cast saturates, and NaN becomes 0
as_u32(a) ==
    CASE a.class = "nan" -> U32_MIN
      [] a.class = "neg_inf" -> U32_MIN
      [] a.class = "pos_inf" -> U32_MAX
      [] OTHER ->
            IF a.halves \div 2 < U32_MIN THEN U32_MIN
            ELSE IF a.halves \div 2 > U32_MAX THEN U32_MAX
            ELSE a.halves \div 2

Vector2(x, y) == [x |-> x, y |-> y]

Err(e) == [status |-> "err", error |-> e]

\* impl TryFrom<Vector2> for U2
U2_try_from(v) ==
    IF \/ f32_lt(minus_half(U32_MIN), v.x)
       \/ f32_lt(v.x, plus_half(U32_MAX))
       \/ f32_lt(minus_half(U32_MIN), v.y)
       \/ f32_lt(v.y, plus_half(U32_MAX))
    THEN Ok(<<as_u32(round(v.x)), as_u32(round(v.y))>>)
    ELSE Err("Out-of-bounds float present")

InitVector2 ==
    \E x \in F32, y \in F32 :
        /\ NoBoard
        /\ NoCards
        /\ point = NoCall
        /\ nudged = NoCall
        /\ back = NoCall
        /\ vector2 = Vector2(x, y)
        /\ converted = NoCall

\* converted = U2::try_from(vector2)
TryFrom ==
    /\ vector2 # NoCall
    /\ converted = NoCall
    /\ converted' = U2_try_from(vector2)
    /\ UNCHANGED <<point, nudged, back, vector2>>
    /\ UNCHANGED <<sokoban_vars, poker_vars, binding_vars>>

NextVector2 == TryFrom

SpecVector2 == InitVector2 /\ [][NextVector2]_vars

(***************************************************************************)
(* The Godot class of src/rust/src/io.rs: a TileMap that holds a board,    *)
(* reads it from its tiles in ready and moves or resets it in input.  Its  *)
(* board is crate::sokoban's, modelled by the Sokoban of sokoban.rs.       *)
(***************************************************************************)
\* get_initial_board, on the tile of each cell of layer 0 (tiles[c] is the
\* name of the tile of cell c, "none" for an empty cell; cells lists the
\* cells in the order in which get_used_cells_by_id returns them).  A cell
\* of a triggered target is a push and a target.
get_initial_board(tiles, cells) ==
    LET used(tile) == SelectSeq(cells, LAMBDA c : tiles[c] = tile)
        triggered_targets_used == used("triggered_target")
    IN Sokoban(used("you")[1],
               used("stop"),
               used("push") \o triggered_targets_used,
               used("target") \o triggered_targets_used)

\* update_board without its notification
update_board_silent(b) == [board |-> b, printed |-> <<>>]

\* update_board: the board it stores and what it prints with godot_print!.
update_board(b) ==
    [board |-> b, printed |-> IF all_targets_triggered(b) THEN <<"Win!">> ELSE <<>>]

\* the test of input without is_echo
pressed_with_echo(e) == e.pressed

\* event.is_pressed() && !event.is_echo()
pressed_no_echo(e) == e.pressed /\ ~e.echo

\* The state after init: both boards empty with the player at (0, 0).
InitBinding ==
    /\ board = Sokoban(<<U32_MIN, U32_MIN>>, <<>>, <<>>, <<>>)
    /\ initial_board = board
    /\ self = board
    /\ dir = "None"
    /\ status = "init"
    /\ steps = 0
    /\ budget = MaxMoves
    /\ script = -1
    /\ answer = NoAnswer
    /\ NoCards
    /\ NoPoint
    /\ NoEvent

\* ready, on a TileMap of one row of WinSize cells that holds a you tile and
\* at most MaxObjects tiles of walls, blocks and targets.
Ready ==
    /\ status = "init"
    /\ LET cells == [k \in 1..WinSize |-> <<U32_MIN + k - 1, U32_MIN + 1>>]
           layer == {cells[k] : k \in DOMAIN cells}
       IN
       \E tiles \in [layer -> {"none", "you", "stop", "push", "target", "triggered_target"}] :
         /\ \E c \in layer : tiles[c] = "you"
         /\ Cardinality({c \in layer : tiles[c] \notin {"none", "you"}}) <= MaxObjects
         /\ initial_board' = get_initial_board(tiles, cells)
         /\ board' = update_board(initial_board').board
         /\ printed' = Ok(update_board(initial_board').printed)
         /\ ready_board' = initial_board'
    /\ self' = board
    /\ status' = "ok"
    /\ UNCHANGED <<dir, steps, budget, script, answer, event>>
    /\ UNCHANGED <<poker_vars, coordinate_vars>>

\* input(event): event is pressed or not, an echo or not, and bound to one
\* action of the InputMap or to none of the five.  A move or a reset calls
\* update_board; a panic of you_move leaves the fields as they were.
Input ==
    /\ status = "ok"
    /\ steps < budget
    /\ \E e \in [pressed : BOOLEAN, echo : BOOLEAN,
                 action : {"move_up", "move_left", "move_down", "move_right", "reset", "other"}] :
         /\ event' = e
         /\ IF pressed_no_echo(e) /\ e.action \in {"move_up", "move_left", "move_down", "move_right"}
            THEN LET direction ==
                         CASE e.action = "move_up" -> "Up"
                           [] e.action = "move_left" -> "Left"
                           [] e.action = "move_down" -> "Down"
                           [] e.action = "move_right" -> "Right"
                 IN \E r \in {you_move(board, direction, overflow_checks) : overflow_checks \in Builds} :
                      /\ status' = r.status
                      /\ dir' = direction
                      /\ IF r.status = "ok"
                         THEN /\ board' = update_board(r.board).board
                              /\ printed' = Ok(update_board(r.board).printed)
                         ELSE /\ board' = board
                              /\ printed' = NoCall
            ELSE IF pressed_no_echo(e) /\ e.action = "reset"
            THEN /\ board' = update_board(initial_board).board
                 /\ printed' = Ok(update_board(initial_board).printed)
                 /\ UNCHANGED <<status, dir>>
            ELSE /\ printed' = NoCall
                 /\ UNCHANGED <<board, status, dir>>
    /\ self' = board
    /\ steps' = steps + 1
    /\ UNCHANGED <<initial_board, budget, script, answer, ready_board>>
    /\ UNCHANGED <<poker_vars, coordinate_vars>>

NextBinding == Ready \/ Input

SpecBinding == InitBinding /\ [][NextBinding]_vars

(***************************************************************************)
(* Order of hands within and across categories, stated on the cards.       *)
(***************************************************************************)
\* How many of cards have rank r.
HeldIn(cards, r) == Cardinality({k \in DOMAIN cards : cards[k].rank = r})

\* The ranks of a set, listed from greatest to least.
RECURSIVE DescList(_)
DescList(S) ==
    IF S = {} THEN <<>>
    ELSE LET top == CHOOSE r \in S : \A q \in S : q <= r IN <<top>> \o DescList(S \ {top})

\* The ranks that cards hold exactly c times, from greatest to least.
HeldTimes(cards, c) == DescList({r \in Rank : HeldIn(cards, r) = c})

\* The high card of the run that five cards of consecutive ranks, or of the
\* ranks of the wheel, make.
HighOfRunIn(cards) ==
    LET S == {cards[k].rank : k \in DOMAIN cards} IN
    IF S = WheelRanks THEN Five ELSE CHOOSE r \in S : \A q \in S : q <= r

\* What hands of five cards of one category are ordered by, first to last.
SortKey(cards, category) ==
    CASE category \in {"HighCard", "Flush"} -> sort_ranks(ranks_of(cards))
      [] category = "Pair" -> HeldTimes(cards, 2) \o HeldTimes(cards, 1)
      [] category = "TwoPair" -> HeldTimes(cards, 2) \o HeldTimes(cards, 1)
      [] category \in {"ThreeOfAKind", "FullHouse"} -> HeldTimes(cards, 3)
      [] category = "FourOfAKind" -> HeldTimes(cards, 4)
      [] category \in {"Straight", "StraightFlush"} -> <<HighOfRunIn(cards)>>
      [] category = "RoyalFlush" -> <<>>

\* p comes before q in the lexicographic order of sequences of one length.
LexLess(p, q) ==
    \E k \in DOMAIN p : p[k] < q[k] /\ \A j \in 1..(k - 1) : p[j] = q[j]

LexOrdering(p, q) ==
    IF LexLess(p, q) THEN "Less" ELSE IF LexLess(q, p) THEN "Greater" ELSE "Equal"

\* One HandKind is less than another: of a weaker category, or of the same
\* category and before it in the order of the payloads.
KindLess(k1, k2) ==
    \/ Strength(k1.tag) < Strength(k2.tag)
    \/ k1.tag = k2.tag /\ LexLess(k1.payload, k2.payload)

\* C21: two hands are equal exactly when their kinds are, and one is less
\* than the other exactly when its kind is less; hands of different cards
\* and one kind compare equal.
C21_HandsCompareAsKinds ==
    Compared =>
        /\ verdict.op = "eq" =>
              verdict.result = Ok(hand_kind.value = other_kind.value)
        /\ verdict.op = "partial_cmp" =>
              /\ verdict.result.value.some
              /\ verdict.result.value.val = "Less"
                    <=> KindLess(hand_kind.value, other_kind.value)
              /\ verdict.result.value.val = "Equal"
                    <=> hand_kind.value = other_kind.value

\* Seven to Jack of Spades is equal to Seven to Jack of Clubs.
C21_Witness ==
    /\ Compared
    /\ verdict.op = "eq"
    /\ given # other.cards
    /\ \A k \in DOMAIN given : given[k].suit = "Spade"
    /\ \A k \in DOMAIN other.cards : other.cards[k].suit = "Club"
    /\ hand_kind.value = HandKind("StraightFlush", <<Jack>>)
    /\ verdict.result = Ok(TRUE)

\* C22: hands of one category are ordered by what the category is made of:
\* the pair and then the other ranks from the highest, the higher pair, the
\* lower and the fifth card, the five ranks from the highest, or the one rank
\* of the set or the run.
C22_PayloadOrder ==
    (Compared /\ hand_kind.value.tag = other_kind.value.tag) =>
        Found(LexOrdering(SortKey(given, hand_kind.value.tag),
                          SortKey(other.cards, other_kind.value.tag)))

\* A pair of Tens with a lower third card than the pair of Tens it is
\* compared with.
C22_Witness ==
    /\ Compared
    /\ verdict.op = "partial_cmp"
    /\ hand_kind.value.tag = "Pair"
    /\ other_kind.value.tag = "Pair"
    /\ hand_kind.value.payload[1] = other_kind.value.payload[1]
    /\ hand_kind.value.payload[2] = other_kind.value.payload[2]
    /\ hand_kind.value.payload[3] = other_kind.value.payload[3]
    /\ hand_kind.value.payload[4] < other_kind.value.payload[4]
    /\ verdict.result = Ok(Some("Less"))

\* C23: two cards are equal exactly when their ranks are, whatever their
\* suits; one is less than the other exactly when its rank is the lower in
\* Two < Three < ... < Ace; and exactly one of <, == and > holds of them.
C23_CardsCompareByRank ==
    verdict # NoCall =>
        LET c1 == given[1]
            c2 == given[2]
        IN /\ verdict.op = "eq" => verdict.result = (c1.rank = c2.rank)
           /\ verdict.op = "partial_cmp" =>
                 /\ verdict.result.some
                 /\ verdict.result.val = "Less" <=> c1.rank < c2.rank
                 /\ verdict.result.val = "Greater" <=> c1.rank > c2.rank
                 /\ verdict.result.val = "Equal" <=> c1.rank = c2.rank
                 /\ verdict.result.val = "Equal" <=> Card_eq(c1, c2)

\* The Two of Diamonds is equal to the Two of Spades.
C23_Witness ==
    /\ verdict # NoCall
    /\ verdict.op = "eq"
    /\ given = <<Card(Two, "Diamond"), Card(Two, "Spade")>>
    /\ verdict.result = TRUE

(***************************************************************************)
(* Coordinates: what a nudge is, stated on the integers.                   *)
(***************************************************************************)
Opposite(d) ==
    CASE d = "Up" -> "Down"
      [] d = "Down" -> "Up"
      [] d = "Left" -> "Right"
      [] d = "Right" -> "Left"

\* The range of the coordinates of the receiver's type.
Least == IF point.type = "U2" THEN U32_MIN ELSE I32_MIN

Greatest == IF point.type = "U2" THEN U32_MAX ELSE I32_MAX

\* Where n steps in d from p lead on the unbounded plane: the coordinate
\* that changes, and what it becomes.
Axis(d) == IF d \in {"Left", "Right"} THEN 1 ELSE 2

Target(p, n, d) == IF d \in {"Up", "Left"} THEN p[Axis(d)] - n ELSE p[Axis(d)] + n

NudgeByCalled == nudged # NoCall /\ nudged.op = "nudge_by"

NudgeCalled == nudged # NoCall /\ nudged.op = "nudge"

\* C24: when p.nudge_by(n, d) is a point q and q.nudge_by(n, opposite(d)) is
\* a point, that point is p.
C24_NudgeRoundTrip ==
    (back # NoCall /\ back.direction = Opposite(point.direction) /\ back.result.some)
        => back.result.val = point.p

\* A round trip of two steps from the least corner.
C24_Witness ==
    /\ back # NoCall
    /\ back.direction = Opposite(point.direction)
    /\ back.result.some
    /\ point.n = 2
    /\ point.p = <<Least, Least>>
    /\ nudged.result.val # point.p

\* C25: nudge_by(n, d) is None exactly when the coordinate it changes would
\* leave the range of the integer type, and the coordinate it returns is
\* never wrapped or clamped.
C25_NoneIffOutOfRange ==
    NudgeByCalled =>
        LET target == Target(point.p, point.n, point.direction) IN
        /\ ~nudged.result.some <=> (target < Least \/ target > Greatest)
        /\ nudged.result.some => nudged.result.val[Axis(point.direction)] = target

\* Two steps up from a point one above the least row.
C25_Witness ==
    /\ NudgeByCalled
    /\ point.type = "U2"
    /\ point.p[2] = U32_MIN + 1
    /\ point.n = 2
    /\ point.direction = "Up"
    /\ nudged.result = None

\* C26: a nudge_by that yields a point changes one coordinate by n and keeps
\* the other: Up (x, y - n), Down (x, y + n), Left (x - n, y), Right
\* (x + n, y); nudge(d) is nudge_by(1, d).
C26_NudgeByMovesOneAxis ==
    /\ (NudgeByCalled /\ nudged.result.some) =>
          LET x == point.p[1]
              y == point.p[2]
              n == point.n
          IN nudged.result.val =
                CASE point.direction = "Up" -> <<x, y - n>>
                  [] point.direction = "Down" -> <<x, y + n>>
                  [] point.direction = "Left" -> <<x - n, y>>
                  [] point.direction = "Right" -> <<x + n, y>>
    /\ NudgeCalled =>
          LET target == Target(point.p, 1, point.direction) IN
          IF target < Least \/ target > Greatest
          THEN nudged.result = None
          ELSE /\ nudged.result.some
               /\ nudged.result.val[Axis(point.direction)] = target
               /\ nudged.result.val[3 - Axis(point.direction)] = point.p[3 - Axis(point.direction)]

\* A nudge to the right.
C26_Witness ==
    /\ NudgeCalled
    /\ point.direction = "Right"
    /\ nudged.result.some
    /\ nudged.result.val = <<point.p[1] + 1, point.p[2]>>

(***************************************************************************)
(* Conversion of a Vector2.                                                *)
(***************************************************************************)
\* A component beyond the u32 range, or NaN.
Beyond(a) ==
    \/ a.class # "finite"
    \/ a.halves < 2 * U32_MIN - 1
    \/ a.halves > 2 * U32_MAX + 1

\* C29: U2::try_from(Vector2) is Err when a component is beyond the u32
\* range or NaN, and is Ok, of the components rounded to the nearest
\* integers, only when both are in range.
C29_ErrBeyondRange ==
    converted # NoCall =>
        IF Beyond(vector2.x) \/ Beyond(vector2.y)
        THEN converted.status = "err"
        ELSE converted = Ok(<<as_u32(round(vector2.x)), as_u32(round(vector2.y))>>)

(***************************************************************************)
(* What kind() carries, stated on the cards given.                         *)
(***************************************************************************)
\* Each rank of l as many times as cards hold it.
RECURSIVE Spread(_, _)
Spread(cards, l) ==
    IF l = <<>> THEN <<>>
    ELSE [k \in 1..HeldIn(cards, Head(l)) |-> Head(l)] \o Spread(cards, Tail(l))

\* The ranks of the cards given, from highest to lowest.
RanksFromTop == Spread(given, DescList(RanksGiven))

\* C27: five cards of one suit that are no straight are a Flush of their
\* ranks from highest to lowest; five cards of five ranks that are neither a
\* flush nor a straight are a HighCard of their ranks from highest to lowest.
C27_FlushAndHighCardPayload ==
    (KindOfFive /\ ~Run) =>
        /\ SameSuit => hand_kind = Ok(HandKind("Flush", RanksFromTop))
        /\ (~SameSuit /\ Cardinality(RanksGiven) = HandSize)
              => hand_kind = Ok(HandKind("HighCard", RanksFromTop))

\* Jack, Nine, Eight, Four, Three of one suit, given from the Three up.
C27_Witness ==
    /\ KindOfFive
    /\ SameSuit
    /\ ranks_of(given) = <<Three, Four, Eight, Nine, Jack>>
    /\ hand_kind = Ok(HandKind("Flush", <<Jack, Nine, Eight, Four, Three>>))

\* C28: five cards that are neither a flush nor a straight are named by the
\* counts of their ranks: four of a rank FourOfAKind; three of a rank
\* FullHouse when the other two are a pair and ThreeOfAKind otherwise; two
\* pairs TwoPair of the higher, the lower and the fifth card; one pair Pair
\* of its rank and the other three from highest to lowest.
C28_KindFollowsCounts ==
    (KindOfFive /\ ~SameSuit /\ ~Run) =>
        LET fours == HeldTimes(given, 4)
            threes == HeldTimes(given, 3)
            twos == HeldTimes(given, 2)
            ones == HeldTimes(given, 1)
        IN /\ fours # <<>> => hand_kind = Ok(HandKind("FourOfAKind", fours))
           /\ (threes # <<>> /\ twos # <<>>) => hand_kind = Ok(HandKind("FullHouse", threes))
           /\ (threes # <<>> /\ twos = <<>>) => hand_kind = Ok(HandKind("ThreeOfAKind", threes))
           /\ Len(twos) = 2 => hand_kind = Ok(HandKind("TwoPair", twos \o ones))
           /\ (Len(twos) = 1 /\ threes = <<>>) => hand_kind = Ok(HandKind("Pair", twos \o ones))

\* A pair of Fours under King, Jack and Seven, given from the lowest card up.
C28_Witness ==
    /\ KindOfFive
    /\ ~SameSuit
    /\ ranks_of(given) = <<Four, Four, Seven, Jack, King>>
    /\ hand_kind = Ok(HandKind("Pair", <<Four, King, Jack, Seven>>))

(***************************************************************************)
(* The blocks a move leaves alone.                                         *)
(***************************************************************************)
\* The cells of the run of blocks that starts next to the player of the last
\* call, in its direction.
RunCells == {Ahead(n) : n \in {m \in 1..U32_MAX : ChainOf(m)}}

\* The last call moved the player.
Stepped == status = "ok" /\ board.you # self.you

\* C30: you_move moves the blocks of the run that starts next to the player
\* and no others: the list of blocks keeps its length and order, an element
\* on a cell of the run is one step further when the player moves, and
\* every other element is where it was.
C30_OnlyTheRunMoves ==
    (Called /\ status = "ok") =>
        /\ Len(board.pushes) = Len(self.pushes)
        /\ \A k \in DOMAIN self.pushes :
             IF Stepped /\ self.pushes[k] \in RunCells
             THEN board.pushes[k] = At(self.pushes[k], 1, dir)
             ELSE board.pushes[k] = self.pushes[k]

\* A block next to the player moves; the block listed before it, off the
\* player's row and column, stays.
C30_Witness ==
    /\ Called
    /\ Stepped
    /\ Len(self.pushes) = 2
    /\ self.pushes[2] = Ahead(1)
    /\ self.pushes[1][1] # self.you[1]
    /\ self.pushes[1][2] # self.you[2]
    /\ board.pushes[2] = Ahead(2)
    /\ board.pushes[1] = self.pushes[1]

\* The place of a card in the deck: by rank, and by suit within a rank.
DeckPlace(card) ==
    card.rank * Len(Suits) + (CHOOSE i \in DOMAIN Suits : Suits[i] = card.suit)

\* The cards of a list from the highest place in the deck to the lowest.
RECURSIVE FromTheTop(_)
FromTheTop(cards) ==
    IF cards = <<>> THEN <<>>
    ELSE LET k == CHOOSE k \in DOMAIN cards :
                    \A j \in DOMAIN cards : DeckPlace(cards[j]) <= DeckPlace(cards[k])
         IN <<cards[k]>> \o FromTheTop(SubSeq(cards, 1, k - 1) \o SubSeq(cards, k + 1, Len(cards)))

\* C31: kind() does not depend on the order in which five cards are given:
\* in whatever order they come, the hand made of them has the kind of the
\* hand made of the same cards given from the top of the deck down, so all
\* the orders of the same cards have one kind.
C31_KindIgnoresOrder ==
    KindOfFive =>
        \A in_order \in kinds(Hand_new(FromTheTop(given)).cards) : hand_kind = in_order

\* Five cards that make a straight, given in an order that is neither
\* descending nor ascending, and their kind taken.
C31_Witness ==
    /\ KindOfFive
    /\ hand_kind.status = "ok"
    /\ hand_kind.value.tag = "Straight"
    /\ given # FromTheTop(given)
    /\ given # Reversed(FromTheTop(given))
    /\ given[1].rank < given[2].rank
    /\ given[2].rank > given[3].rank

\* The ranks that exactly c of the cards given hold.
RanksHeld(c) == {r \in RanksGiven : Held(r) = c}

\* C38: on five cards, distinct or not, kind() runs to completion: it
\* returns a kind, a Flush or a HighCard with a payload of five ranks, and
\* set_hand panics on no order of its map; two ranks held twice leave one
\* other rank, and one rank held twice with none held three times leaves
\* three other ranks.
C38_KindCompletesOnFive ==
    KindOfFive =>
        /\ hand_kind.status = "ok"
        /\ hand_kind.value.tag \in {"Flush", "HighCard"}
              => Len(hand_kind.value.payload) = HandSize
        /\ \A returned_kind \in set_hands(hand.cards) : returned_kind.status = "ok"
        /\ Cardinality(RanksHeld(2)) = 2
              => Cardinality(RanksGiven \ RanksHeld(2)) = 1
        /\ (Cardinality(RanksHeld(2)) = 1 /\ RanksHeld(3) = {})
              => Cardinality(RanksGiven \ RanksHeld(2)) = 3

\* The kind of five cards taken, a Pair made of one card given twice.
C38_Witness ==
    /\ KindOfFive
    /\ ~DistinctCards
    /\ hand_kind.status = "ok"
    /\ hand_kind.value.tag = "Pair"
    /\ \E i, j \in DOMAIN given :
          i # j /\ given[i] = given[j] /\ given[i].rank = hand_kind.value.payload[1]

\* Both hands hold rank r three times or more.
SharedSet(r) == HeldIn(given, r) >= 3 /\ HeldIn(other.cards, r) >= 3

\* C36: two hands of five cards that are both ThreeOfAKind, or both
\* FourOfAKind, or both FullHouse, and whose three or four cards of a rank
\* are of the same rank compare equal, whatever their other cards.
C36_KickersIgnored ==
    ( /\ Compared
      /\ hand_kind.value.tag = other_kind.value.tag
      /\ hand_kind.value.tag \in {"ThreeOfAKind", "FourOfAKind", "FullHouse"}
      /\ \E r \in Rank : SharedSet(r) )
        => Found("Equal")

\* Three Queens with two other ranks compared with three Queens, a Nine and
\* a Two: no rank but the Queen is in both hands, and they are found equal.
C36_Witness ==
    /\ Compared
    /\ verdict.op = "partial_cmp"
    /\ hand_kind.value.tag = "ThreeOfAKind"
    /\ other_kind.value.tag = "ThreeOfAKind"
    /\ SharedSet(Queen)
    /\ RanksGiven \cap OtherRanks = {Queen}
    /\ verdict.result = Ok(Some("Equal"))

\* No two blocks of b share a cell, no block is on a wall, and the player is
\* on neither a wall nor a block.
WellFormed(b) ==
    /\ \A j, k \in DOMAIN b.pushes : j # k => b.pushes[j] # b.pushes[k]
    /\ \A k \in DOMAIN b.pushes : ~IsWall(b, b.pushes[k])
    /\ ~IsWall(b, b.you)
    /\ ~IsBlock(b, b.you)

\* C33: the boards that calls of you_move lead to from a well-formed board
\* are well-formed.
C33_MovesKeepWellFormed ==
    (WellFormed(initial_board) /\ status = "ok") => WellFormed(board)

\* Two calls made from a well-formed board, the last of which pushed two
\* blocks.
C33_Witness ==
    /\ WellFormed(initial_board)
    /\ steps = MaxMoves
    /\ Stepped
    /\ ChainOf(2)
    /\ board.pushes # self.pushes
    /\ WellFormed(board)

\* Two calls have been made: the first, on a board whose player was on
\* neither a wall nor a block, moved the player, and the second was in the
\* opposite direction.
WentAndCameBack ==
    /\ steps = 2
    /\ Called
    /\ status = "ok"
    /\ ~IsWall(initial_board, initial_board.you)
    /\ ~IsBlock(initial_board, initial_board.you)
    /\ self.you # initial_board.you
    /\ self.you = At(initial_board.you, 1, Opposite(dir))

\* C34: blocks are pushed, never pulled: after a move that moves the player
\* and a move in the opposite direction the player is where it was, and the
\* board is the original one exactly when the first move pushed no block.
C34_PushedNeverPulled ==
    WentAndCameBack =>
        /\ board.you = initial_board.you
        /\ board.pushes = self.pushes
        /\ board = initial_board <=> self.pushes = initial_board.pushes

\* The first move pushed a block, the second brought the player back, and
\* the block stayed where it was pushed.
C34_Witness ==
    /\ WentAndCameBack
    /\ self.pushes # initial_board.pushes
    /\ board.you = initial_board.you
    /\ board.pushes = self.pushes
    /\ board # initial_board

\* What the walk of the last call came to, in a build.
LastWalk(overflow_checks) == walk(self, dir, 1, <<>>, overflow_checks)

\* C35: you_move always terminates: on a board of B blocks its walk rejects
\* the move or finds the free cell after at most B + 1 cells, in every build.
C35_WalkEndsWithinBlocks ==
    Called =>
        /\ status = "ok"
        /\ \A overflow_checks \in Builds :
              /\ LastWalk(overflow_checks).kind \in {"rejected", "landed"}
              /\ Len(LastWalk(overflow_checks).moving_pushes) + 1 <= Len(self.pushes) + 1

\* ready has run.
IsReady == ready_board # NoCall

\* An event has been given to input; it was pressed and no echo.
Given == IsReady /\ event # NoCall

Delivered == Given /\ event.pressed /\ ~event.echo

\* C32: in the Godot class, once ready has run: the stored initial board is
\* the one ready read, whatever events came since; after a reset event the
\* current board is that board; and an event that is not pressed, or is an
\* echo, leaves the current board as it was.
C32_ResetRestoresReadyBoard ==
    IsReady =>
        /\ initial_board = ready_board
        /\ (Delivered /\ event.action = "reset") => board = ready_board
        /\ (Given /\ ~Delivered) => board = self

\* A move that pushed a block, then a reset: the board is again the one that
\* ready read.
C32_Witness ==
    /\ Delivered
    /\ event.action = "reset"
    /\ steps = 2
    /\ self.you # ready_board.you
    /\ self.pushes # ready_board.pushes
    /\ board = ready_board
    /\ initial_board = ready_board

\* C37: a board without targets is always won: when the board that ready
\* read has no target, all_targets_triggered holds of it and of every board
\* that follows, and every call of update_board prints the notification.
C37_NoTargetsAlwaysWon ==
    (IsReady /\ ready_board.targets = <<>>) =>
        /\ all_targets_triggered(ready_board)
        /\ board.targets = <<>>
        /\ all_targets_triggered(board)
        /\ printed # NoCall => printed = Ok(<<"Win!">>)

\* A move on a board of no targets pushed a block, and the update printed
\* the notification.
C37_Witness ==
    /\ Delivered
    /\ ready_board.targets = <<>>
    /\ event.action \in {"move_left", "move_right"}
    /\ board.pushes # self.pushes
    /\ printed = Ok(<<"Win!">>)

====
